---------------------------- MODULE Spec2Model ----------------------------
(***************************************************************************)
(* sheet-calc: a delimited text table is parsed (SpreadSheet2D::from_string), *)
(* a configured list of column operations is applied in order             *)
(* (SpreadSheet2D::column_op), and the table is written back              *)
(* (SpreadSheet2D::to_string).                                            *)
(*                                                                         *)
(* A Rust String is a sequence of one-character strings, so that split,    *)
(* join, lines, the f64 parser and the f64 formatter work on characters.   *)
(***************************************************************************)
EXTENDS Integers, Sequences, FiniteSets, TLC

VARIABLES input, config, pc, ci, spreadsheet, output, par, col

vars == <<input, config, pc, ci, spreadsheet, output, par, col>>

(***************************************************************************)
(* Characters and strings                                                  *)
(***************************************************************************)
LF == "\n"
CR == "\r"
TAB == "\t"

\* Option<T>: None is the empty sequence, Some(v) the sequence of v alone
None == <<>>
Some(v) == <<v>>
unwrap_or(o, default) == IF o = None THEN default ELSE o[1]

RECURSIVE Concat(_)
\* the concatenation of a sequence of strings
Concat(ss) == IF ss = <<>> THEN <<>> ELSE Head(ss) \o Concat(Tail(ss))

\* str::starts_with at position i (1-based): d occurs in s at i
OccursAt(s, d, i) ==
    /\ i + Len(d) - 1 <= Len(s)
    /\ \A j \in 1..Len(d) : s[i + j - 1] = d[j]

RECURSIVE FindFrom(_, _, _)
\* str::find: the least position at or after `from` where d occurs, 0 if none
FindFrom(s, d, from) ==
    IF from + Len(d) - 1 > Len(s) THEN 0
    ELSE IF OccursAt(s, d, from) THEN from
    ELSE FindFrom(s, d, from + 1)

RECURSIVE SplitNonEmpty(_, _)
\* str::split with a non-empty pattern: cut at the leftmost occurrences
SplitNonEmpty(s, d) ==
    LET p == FindFrom(s, d, 1)
    IN  IF p = 0 THEN <<s>>
        ELSE <<SubSeq(s, 1, p - 1)>> \o SplitNonEmpty(SubSeq(s, p + Len(d), Len(s)), d)

\* str::split: an empty pattern matches at every character boundary, the
\* two ends included, so the pieces are "", each character, ""
Split(s, d) ==
    IF d = <<>>
    THEN <<<<>>>> \o [i \in 1..Len(s) |-> <<s[i]>>] \o <<<<>>>>
    ELSE SplitNonEmpty(s, d)

RECURSIVE Join(_, _)
\* [String]::join
Join(ss, d) ==
    IF ss = <<>> THEN <<>>
    ELSE IF Len(ss) = 1 THEN ss[1]
    ELSE ss[1] \o d \o Join(Tail(ss), d)

\* one item of str::lines: the terminating "\n" is dropped, and then one
\* "\r" before it; a last line without "\n" is returned as it is
StripLineEnd(piece, terminated) ==
    IF terminated /\ piece # <<>> /\ piece[Len(piece)] = CR
    THEN SubSeq(piece, 1, Len(piece) - 1)
    ELSE piece

RECURSIVE Lines(_)
\* str::lines
Lines(s) ==
    IF s = <<>> THEN <<>>
    ELSE LET p == FindFrom(s, <<LF>>, 1)
         IN  IF p = 0 THEN <<StripLineEnd(s, FALSE)>>
             ELSE <<StripLineEnd(SubSeq(s, 1, p - 1), TRUE)>>
                  \o Lines(SubSeq(s, p + 1, Len(s)))

(***************************************************************************)
(* Array2<String>: a shape and the elements in row-major order             *)
(***************************************************************************)
from_shape_vec(n_rows, n_columns, v) ==
    IF n_rows * n_columns = Len(v)
    THEN [ok |-> TRUE, arr |-> [nrows |-> n_rows, ncols |-> n_columns, elems |-> v]]
    ELSE [ok |-> FALSE, arr |-> [nrows |-> 0, ncols |-> 0, elems |-> <<>>]]

At(data, r, c) == data.elems[(r - 1) * data.ncols + c]

\* data.slice(s![.., idx]) : column idx (1-based here)
SliceColumn(data, idx) == [r \in 1..data.nrows |-> At(data, r, idx)]

\* one row of data.axis_iter(Axis(0))
AxisRow(data, r) == [c \in 1..data.ncols |-> At(data, r, c)]

\* data.append(Axis(1), to_append): one more column, the other axis must agree
AppendColumn(data, column) ==
    IF column.nrows # data.nrows THEN [ok |-> FALSE, arr |-> data]
    ELSE [ok |-> TRUE,
          arr |-> [nrows |-> data.nrows,
                   ncols |-> data.ncols + column.ncols,
                   elems |-> Concat([r \in 1..data.nrows |->
                                       AxisRow(data, r) \o AxisRow(column, r)])]]

\* the value of `spreadsheet` before from_string has built one
NoSheet ==
    [preamble |-> <<>>, col_delimeter |-> <<>>,
     data |-> [nrows |-> 0, ncols |-> 0, elems |-> <<>>],
     column_headers |-> <<>>]

(***************************************************************************)
(* SpreadSheet2D::from_string and to_string                                *)
(***************************************************************************)
Min(a, b) == IF a <= b THEN a ELSE b

\* a check that only finds missing fields
RowWidthNotShort(col_counter, n_columns) == col_counter >= n_columns

\* the check made after each row's fields are pushed (col_counter != n_columns)
RowWidthOk(col_counter, n_columns) == col_counter = n_columns

\* Each failure is a panic: the expect on the header line, the panic! on a
\* row of another width (with too many fields the subtraction in its
\* message underflows, which panics or wraps, and the panic! follows), the
\* expect on from_shape_vec.
from_string(s, col_delimeter, line_offset) ==
    LET rows == Lines(s)
        taken == Min(line_offset, Len(rows))
        preamble == SubSeq(rows, 1, taken)
        rest == SubSeq(rows, taken + 1, Len(rows))
    IN  IF rest = <<>> THEN [ok |-> FALSE, panic |-> "unexpected end of rows!", sheet |-> NoSheet]
        ELSE
        LET column_headers == Split(rest[1], col_delimeter)
            n_columns == Len(column_headers)
            body == Tail(rest)
            fields == [r \in 1..Len(body) |-> Split(body[r], col_delimeter)]
        IN  IF \E r \in 1..Len(body) : ~RowWidthOk(Len(fields[r]), n_columns)
            THEN [ok |-> FALSE, panic |-> "issue with reading row!", sheet |-> NoSheet]
            ELSE
            LET table_elements == Concat(fields)
                n_rows == Len(table_elements) \div n_columns
                data == from_shape_vec(n_rows, n_columns, table_elements)
            IN  IF ~data.ok
                THEN [ok |-> FALSE, panic |-> "incorrect dimensions for array construction",
                      sheet |-> NoSheet]
                ELSE [ok |-> TRUE, panic |-> "",
                      sheet |-> [preamble |-> preamble,
                                 col_delimeter |-> col_delimeter,
                                 data |-> data.arr,
                                 column_headers |-> column_headers]]

\* a to_string that ends the preamble without a line break
to_string_unbroken_preamble(self) ==
    LET hdr == Join(self.column_headers, self.col_delimeter) \o <<LF>>
        body == Concat([r \in 1..self.data.nrows |->
                          Join(AxisRow(self.data, r), self.col_delimeter) \o <<LF>>])
    IN  Join(self.preamble, <<LF>>) \o hdr \o body

\* a to_string that writes the data rows with tabs
to_string_tab_rows(self) ==
    LET head == IF self.preamble = <<>> THEN <<>> ELSE Join(self.preamble, <<LF>>) \o <<LF>>
        hdr == Join(self.column_headers, self.col_delimeter) \o <<LF>>
        body == Concat([r \in 1..self.data.nrows |->
                          Join(AxisRow(self.data, r), <<TAB>>) \o <<LF>>])
    IN  head \o hdr \o body

to_string(self) ==
    LET head == IF self.preamble = <<>> THEN Join(self.preamble, <<LF>>)
                ELSE Join(self.preamble, <<LF>>) \o <<LF>>
        hdr == Join(self.column_headers, self.col_delimeter) \o <<LF>>
        body == Concat([r \in 1..self.data.nrows |->
                          Join(AxisRow(self.data, r), self.col_delimeter) \o <<LF>>])
    IN  head \o hdr \o body

(***************************************************************************)
(* f64.  A value is NaN, an infinity, or a finite dyadic rational          *)
(* (-1)^neg * m / 2^e, kept normalised (e = 0 or m odd), the sign of zero   *)
(* included.  On such values + - * are exact in f64, and so is a division  *)
(* whose quotient is dyadic.  Every other value (a decimal such as 0.1, a  *)
(* quotient such as 1/3, a magnitude past MantLimit) is "other": the model *)
(* does not follow the rounding of f64, and no step computes with it.      *)
(***************************************************************************)
MantLimit == 2^15
FracLimit == 6
MaxDigits == 4

NAN == [k |-> "nan", neg |-> FALSE, m |-> 0, e |-> 0]
UNMODELLED == [k |-> "other", neg |-> FALSE, m |-> 0, e |-> 0]
Inf(neg) == [k |-> "inf", neg |-> neg, m |-> 0, e |-> 0]

RECURSIVE Fin(_, _, _)
Fin(neg, m, e) ==
    IF e > 0 /\ m % 2 = 0 THEN Fin(neg, m \div 2, e - 1)
    ELSE IF m >= MantLimit \/ e > FracLimit THEN UNMODELLED
    ELSE [k |-> "fin", neg |-> neg, m |-> m, e |-> e]

IsZero(a) == a.k = "fin" /\ a.m = 0

Neg(a) == IF a.k \in {"inf", "fin"} THEN [a EXCEPT !.neg = ~a.neg] ELSE a

F64Add(a, b) ==
    IF a.k = "nan" \/ b.k = "nan" THEN NAN
    ELSE IF a.k = "other" \/ b.k = "other" THEN UNMODELLED
    ELSE IF a.k = "inf" /\ b.k = "inf" THEN (IF a.neg = b.neg THEN a ELSE NAN)
    ELSE IF a.k = "inf" THEN a
    ELSE IF b.k = "inf" THEN b
    ELSE LET E == IF a.e >= b.e THEN a.e ELSE b.e
             x == (IF a.neg THEN -1 ELSE 1) * a.m * 2^(E - a.e)
             y == (IF b.neg THEN -1 ELSE 1) * b.m * 2^(E - b.e)
             z == x + y
         IN  IF z = 0 THEN Fin(a.neg /\ b.neg, 0, 0)
             ELSE IF z < 0 THEN Fin(TRUE, -z, E)
             ELSE Fin(FALSE, z, E)

F64Sub(a, b) == F64Add(a, Neg(b))

F64Mul(a, b) ==
    IF a.k = "nan" \/ b.k = "nan" THEN NAN
    ELSE IF a.k = "other" \/ b.k = "other" THEN UNMODELLED
    ELSE IF a.k = "inf" \/ b.k = "inf"
         THEN (IF IsZero(a) \/ IsZero(b) THEN NAN ELSE Inf(a.neg # b.neg))
    ELSE Fin(a.neg # b.neg, a.m * b.m, a.e + b.e)

RECURSIVE OddPart(_)
OddPart(n) == IF n % 2 = 0 THEN OddPart(n \div 2) ELSE n

RECURSIVE TwoPart(_)
TwoPart(n) == IF n % 2 = 0 THEN 1 + TwoPart(n \div 2) ELSE 0

F64Div(a, b) ==
    IF a.k = "nan" \/ b.k = "nan" THEN NAN
    ELSE IF a.k = "other" \/ b.k = "other" THEN UNMODELLED
    ELSE IF a.k = "inf" THEN (IF b.k = "inf" THEN NAN ELSE Inf(a.neg # b.neg))
    ELSE IF b.k = "inf" THEN Fin(a.neg # b.neg, 0, 0)
    ELSE IF IsZero(b) THEN (IF IsZero(a) THEN NAN ELSE Inf(a.neg # b.neg))
    ELSE IF IsZero(a) THEN Fin(a.neg # b.neg, 0, 0)
    ELSE LET o == OddPart(b.m)
             x == b.e - a.e - TwoPart(b.m)
         IN  IF a.m % o # 0 THEN UNMODELLED
             ELSE IF x >= 0 THEN Fin(a.neg # b.neg, (a.m \div o) * 2^x, 0)
             ELSE Fin(a.neg # b.neg, a.m \div o, -x)

\* ---- f64::from_str (str::parse::<f64>) ----
DigitChars == <<"0", "1", "2", "3", "4", "5", "6", "7", "8", "9">>

IsDigit(c) == \E d \in 1..10 : DigitChars[d] = c

DigitVal(c) == (CHOOSE d \in 1..10 : DigitChars[d] = c) - 1

AllDigits(s) == \A i \in 1..Len(s) : IsDigit(s[i])

RECURSIVE DecVal(_)
\* the number a digit string denotes
DecVal(s) == IF s = <<>> THEN 0 ELSE 10 * DecVal(SubSeq(s, 1, Len(s) - 1)) + DigitVal(s[Len(s)])

\* ASCII lower case, for the letters of "nan" and "inf"
Lower(c) == IF c = "N" THEN "n" ELSE IF c = "I" THEN "i" ELSE IF c = "A" THEN "a"
            ELSE IF c = "F" THEN "f" ELSE c

LowerStr(s) == [i \in 1..Len(s) |-> Lower(s[i])]

\* digits [ "." digits ], with a digit on one side at least
ParseDecimal(neg, s) ==
    LET p == FindFrom(s, <<".">>, 1)
        ip == IF p = 0 THEN s ELSE SubSeq(s, 1, p - 1)
        fp == IF p = 0 THEN <<>> ELSE SubSeq(s, p + 1, Len(s))
    IN  IF ~AllDigits(ip) \/ ~AllDigits(fp) \/ (ip = <<>> /\ fp = <<>>)
        THEN [ok |-> FALSE, val |-> NAN]
        ELSE IF Len(ip) + Len(fp) > MaxDigits \/ Len(fp) > FracLimit
        THEN [ok |-> TRUE, val |-> UNMODELLED]
        ELSE LET n == DecVal(ip \o fp)
                 f == Len(fp)
             IN  IF n % (5^f) # 0 THEN [ok |-> TRUE, val |-> UNMODELLED]
                 ELSE [ok |-> TRUE, val |-> Fin(neg, n \div (5^f), f)]

\* the Result of cell.parse::<f64>(): an optional sign, then nan, inf or a decimal
F64FromStr(s) ==
    LET signed == s # <<>> /\ s[1] \in {"-", "+"}
        neg == s # <<>> /\ s[1] = "-"
        body == IF signed THEN Tail(s) ELSE s
    IN  IF LowerStr(body) = <<"n", "a", "n">> THEN [ok |-> TRUE, val |-> NAN]
        ELSE IF LowerStr(body) = <<"i", "n", "f">> THEN [ok |-> TRUE, val |-> Inf(neg)]
        ELSE ParseDecimal(neg, body)

\* a cell that does not parse taken as zero
ParseOrZero(s) == LET r == F64FromStr(s) IN IF r.ok THEN r.val ELSE Fin(FALSE, 0, 0)

\* x.parse::<f64>().unwrap_or(f64::NAN)
ParseOrNan(s) == LET r == F64FromStr(s) IN IF r.ok THEN r.val ELSE NAN

\* ---- f64::to_string (Display): the shortest digits that read back ----
RECURSIVE Digits(_)
Digits(n) == IF n < 10 THEN <<DigitChars[n + 1]>> ELSE Digits(n \div 10) \o <<DigitChars[(n % 10) + 1]>>

RECURSIVE PadLeft(_, _)
PadLeft(s, w) == IF Len(s) >= w THEN s ELSE PadLeft(<<"0">> \o s, w)

F64ToString(x) ==
    IF x.k = "nan" THEN <<"N", "a", "N">>
    ELSE IF x.k = "inf" THEN (IF x.neg THEN <<"-">> ELSE <<>>) \o <<"i", "n", "f">>
    ELSE IF x.k = "other" THEN <<"?">>
    ELSE (IF x.neg THEN <<"-">> ELSE <<>>)
         \o Digits(x.m \div (2^x.e))
         \o (IF x.e = 0 THEN <<>>
             ELSE <<".">> \o PadLeft(Digits((x.m % (2^x.e)) * 5^x.e), x.e))

(***************************************************************************)
(* Regex.  Patterns are written with literal characters, ".", "^", "$"     *)
(* and "(".  No pattern has ")", "[" or a backslash, so a "(" is always an  *)
(* unclosed group, which Regex::new rejects.                               *)
(***************************************************************************)
RegexNew(pattern) ==
    IF \E i \in 1..Len(pattern) : pattern[i] = "("
    THEN [ok |-> FALSE, re |-> <<>>]
    ELSE [ok |-> TRUE, re |-> pattern]

RECURSIVE MatchHere(_, _, _, _)
\* the items of re from i on match header from position j on
MatchHere(re, i, header, j) ==
    IF i > Len(re) THEN TRUE
    ELSE IF re[i] = "^" THEN j = 1 /\ MatchHere(re, i + 1, header, j)
    ELSE IF re[i] = "$" THEN j = Len(header) + 1 /\ MatchHere(re, i + 1, header, j)
    ELSE /\ j <= Len(header)
         /\ IF re[i] = "." THEN header[j] # LF ELSE header[j] = re[i]
         /\ MatchHere(re, i + 1, header, j + 1)

\* Regex::is_match: a search, the match may start anywhere
is_match(re, header) == \E j \in 1..(Len(header) + 1) : MatchHere(re, 1, header, j)

(***************************************************************************)
(* column_index: indices are 0-based, as in the source                     *)
(***************************************************************************)
RECURSIVE FilterMatches(_, _, _)
\* column_header.iter().enumerate().filter_map(..).collect(), from index idx on
FilterMatches(re, column_header, idx) ==
    IF idx >= Len(column_header) THEN <<>>
    ELSE (IF is_match(re, column_header[idx + 1])
          THEN <<<<idx, column_header[idx + 1]>>>> ELSE <<>>)
         \o FilterMatches(re, column_header, idx + 1)

\* a column_index that takes the first of several matches
PickFirstMatch(matches) ==
    IF matches = <<>> THEN [err |-> "not found", idx |-> 0]
    ELSE [err |-> "", idx |-> matches[1][1]]

\* what column_index does with the matches it collected
PickMatch(matches) ==
    IF Len(matches) > 1 THEN [err |-> "ambiguous", idx |-> 0]
    ELSE IF matches = <<>> THEN [err |-> "not found", idx |-> 0]
    ELSE [err |-> "", idx |-> matches[1][1]]

column_index(column_header, pattern) ==
    LET re == RegexNew(pattern)
    IN  IF ~re.ok THEN [err |-> "invalid pattern", idx |-> 0]
        ELSE PickMatch(FilterMatches(re.re, column_header, 0))

(***************************************************************************)
(* do_operation and column_op                                              *)
(***************************************************************************)
Operators == {"*", "/", "-", "+"}

\* the closure of the match arm chosen by `operation`
ApplyOp(operation, a, b) ==
    CASE operation = "*" -> F64Mul(a, b)
      [] operation = "/" -> F64Div(a, b)
      [] operation = "-" -> F64Sub(a, b)
      [] operation = "+" -> F64Add(a, b)

\* col1.par_iter().zip(col2.par_iter()).map(..).collect(): item i of the
\* result is made from item i of either side (see the Par* actions for
\* the tasks behind it)
do_operation(col1, col2, operation) ==
    IF operation \in Operators
    THEN [err |-> "",
          v |-> [i \in 1..Min(Len(col1), Len(col2)) |-> ApplyOp(operation, col1[i], col2[i])]]
    ELSE [err |-> "unknown operation", v |-> <<>>]

\* a push at the front of the header list
PushHeaderFront(column_headers, new_col_name) == <<new_col_name>> \o column_headers

\* the header list after column_op has pushed the new name
PushHeader(column_headers, new_col_name) == Append(column_headers, new_col_name)

\* column_op from the conversion of the result on (lib.rs 129-144)
append_result(self, new_col, new_col_name) ==
    LET new_col_str == [i \in 1..Len(new_col) |-> F64ToString(new_col[i])]
        n_rows == self.data.nrows
        to_append == from_shape_vec(n_rows, 1, new_col_str)
        appended == AppendColumn(self.data, to_append.arr)
    IN  IF ~to_append.ok \/ ~appended.ok THEN [err |-> "panic", self |-> self]
        ELSE [err |-> "",
              self |-> [self EXCEPT
                          !.data = appended.arr,
                          !.column_headers = PushHeader(self.column_headers, new_col_name)]]

\* the two columns as f64, x.parse::<f64>().unwrap_or(f64::NAN) on each cell
NumericColumn(self, idx) ==
    [r \in 1..self.data.nrows |-> ParseOrNan(SliceColumn(self.data, idx + 1)[r])]

\* a column_op that pushes the header before it computes the column
compute_and_append_header_first(self, idx1, idx2, operation, new_col_name) ==
    LET new_col == do_operation(NumericColumn(self, idx1), NumericColumn(self, idx2), operation)
        pushed == [self EXCEPT !.column_headers = PushHeader(self.column_headers, new_col_name)]
        done == append_result(self, new_col.v, new_col_name)
    IN  IF new_col.err # "" THEN [err |-> new_col.err, self |-> pushed] ELSE done

\* column_op once both indices are known (lib.rs 122-144)
compute_and_append(self, idx1, idx2, operation, new_col_name) ==
    LET new_col == do_operation(NumericColumn(self, idx1), NumericColumn(self, idx2), operation)
    IN  IF new_col.err # "" THEN [err |-> new_col.err, self |-> self]
        ELSE append_result(self, new_col.v, new_col_name)

column_op(self, col1, operation, col2, new_col_name) ==
    LET idx1 == column_index(self.column_headers, col1)
        idx2 == column_index(self.column_headers, col2)
    IN  IF idx1.err # "" THEN [err |-> idx1.err, self |-> self]
        ELSE IF idx2.err # "" THEN [err |-> idx2.err, self |-> self]
        ELSE compute_and_append(self, idx1.idx, idx2.idx, operation, new_col_name)

\* whether the model follows the f64 values this column_op computes
Modelled(self, col1, operation, col2) ==
    LET idx1 == column_index(self.column_headers, col1)
        idx2 == column_index(self.column_headers, col2)
    IN  (idx1.err = "" /\ idx2.err = "" /\ operation \in Operators) =>
            \A r \in 1..self.data.nrows :
                LET a == ParseOrNan(At(self.data, r, idx1.idx + 1))
                    b == ParseOrNan(At(self.data, r, idx2.idx + 1))
                IN  a.k # "other" /\ b.k # "other" /\ ApplyOp(operation, a, b).k # "other"

(***************************************************************************)
(* main: the run from from_string on (main.rs 88-106).  `config` and       *)
(* `input` are what main has read from the two files.                      *)
(***************************************************************************)
MaxRows == 2
MaxOps == 2

SeqsUpTo(S, n) == UNION {[1..k -> S] : k \in 0..n}

\* a text whose lines are `lines`, each ended by a line feed
TextOf(lines) == Concat([i \in 1..Len(lines) |-> lines[i] \o <<LF>>])

CalcOptions(left, operation, right, result) ==
    [left |-> left, right |-> right, operation |-> operation, result |-> result]

\* the calculations a configuration is made of: the second reads the
\* column the first makes, the third names its result with a tab in it, the
\* fourth has an operator that is none of * / - +, the last a pattern
\* that does not compile
CalcSet ==
    { CalcOptions(<<"a">>, "/", <<"b">>, <<"c">>),
      CalcOptions(<<"c">>, "-", <<"^", "a", "$">>, <<"d">>),
      CalcOptions(<<"^", "a", "$">>, "+", <<"b">>, <<"c", TAB, "d">>),
      CalcOptions(<<"b">>, "%", <<"^", "a", "$">>, <<"c">>),
      CalcOptions(<<"^", "a">>, "*", <<"(">>, <<"c">>) }

\* line_offset and column_delimeter, both optional in the configuration file
ConfigHeads ==
    { [line_offset |-> None, column_delimeter |-> None],
      [line_offset |-> Some(1), column_delimeter |-> Some(<<"-">>)] }

HeaderLists == { <<<<"a">>, <<"b">>>>, <<<<"a">>, <<"a", "b">>>>, <<<<"a">>>> }

\* data rows as lists of cells; against a two-column header the third is
\* short, against a one-column header the first two are long
RowSet == { <<<<"1">>, <<"2">>>>, <<<<"x">>, <<"0">>>>, <<<<"2">>>> }

column_delimeter_of(c) == unwrap_or(c.column_delimeter, <<TAB>>)
line_offset_of(c) == unwrap_or(c.line_offset, 0)

\* the input files: line_offset preamble lines, then a header line and data
\* rows written with the configured delimiter, or nothing after the preamble
InputsFor(c) ==
    LET d == column_delimeter_of(c)
        pre == [i \in 1..line_offset_of(c) |-> <<"p">>]
    IN  { TextOf(pre) }
        \cup { TextOf(pre \o <<Join(h, d)>> \o [i \in 1..Len(rows) |-> Join(rows[i], d)]) :
                 h \in HeaderLists, rows \in SeqsUpTo(RowSet, MaxRows) }

NoFile == [created |-> FALSE, bytes |-> <<>>]

Idle == <<>>

Init ==
    /\ \E h \in ConfigHeads, calcs \in SeqsUpTo(CalcSet, MaxOps) :
          config = [line_offset |-> h.line_offset,
                    column_delimeter |-> h.column_delimeter,
                    calculation |-> calcs]
    /\ input \in InputsFor(config)
    /\ pc = "parse"
    /\ ci = 1
    /\ spreadsheet = NoSheet
    /\ output = NoFile
    /\ par = Idle
    /\ col = Idle

\* main.rs 89: SpreadSheet2D::from_string; an expect or panic! inside it
\* ends the process
Parse ==
    /\ pc = "parse"
    /\ LET r == from_string(input, column_delimeter_of(config), line_offset_of(config))
       IN  IF r.ok
           THEN spreadsheet' = r.sheet /\ pc' = "calc"
           ELSE spreadsheet' = spreadsheet /\ pc' = "panicked"
    /\ UNCHANGED <<input, config, ci, output, par, col>>

\* a loop over the calculations from the last to the first
CurrentCalcReversed == config.calculation[Len(config.calculation) - ci + 1]

\* the calculation the for loop of main is at
CurrentCalc == config.calculation[ci]

\* a loop that is left one calculation early
LoopDoneEarly == ci >= Len(config.calculation)

\* the for loop of main has run out of calculations
LoopDone == ci > Len(config.calculation)

\* main.rs 93-100: one turn of the loop; an Err leaves main through `?`
Calc ==
    /\ pc = "calc"
    /\ ~LoopDone
    /\ LET calc == CurrentCalc
           r == column_op(spreadsheet, calc.left, calc.operation, calc.right, calc.result)
       IN  /\ Modelled(spreadsheet, calc.left, calc.operation, calc.right)
           /\ spreadsheet' = r.self
           /\ IF r.err = ""
              THEN ci' = ci + 1 /\ pc' = "calc"
              ELSE ci' = ci /\ pc' = "failed"
    /\ UNCHANGED <<input, config, output, par, col>>

\* main.rs 103: File::create makes or empties the output file, or fails
Create ==
    /\ pc = "calc"
    /\ LoopDone
    /\ \/ output' = [created |-> TRUE, bytes |-> <<>>] /\ pc' = "write"
       \/ output' = output /\ pc' = "io error"
    /\ UNCHANGED <<input, config, ci, spreadsheet, par, col>>

\* main.rs 104: write_all of the serialized table (an I/O error in the
\* middle of the write is not followed)
Write ==
    /\ pc = "write"
    /\ output' = [output EXCEPT !.bytes = to_string(spreadsheet)]
    /\ pc' = "done"
    /\ UNCHANGED <<input, config, ci, spreadsheet, par, col>>

Next == Parse \/ Calc \/ Create \/ Write

Spec == Init /\ [][Next]_vars

(***************************************************************************)
(* The same run over arbitrary input bytes: every text of up to MaxTextLen *)
(* characters, the carriage return among them, with an empty, a default    *)
(* and a two-character delimiter, and no calculation configured.           *)
(***************************************************************************)
MaxTextLen == 5
MaxOffset == 2

TextChars == {"a", TAB, LF, CR}

Delimiters == {None, Some(<<>>), Some(<<"a", "a">>)}

InitText ==
    /\ \E k \in 0..MaxOffset, d \in Delimiters :
          config = [line_offset |-> IF k = 0 THEN None ELSE Some(k),
                    column_delimeter |-> d,
                    calculation |-> <<>>]
    /\ input \in SeqsUpTo(TextChars, MaxTextLen)
    /\ pc = "parse"
    /\ ci = 1
    /\ spreadsheet = NoSheet
    /\ output = NoFile
    /\ par = Idle
    /\ col = Idle

NextText == Parse \/ Create \/ Write

SpecText == InitText /\ [][NextText]_vars

(***************************************************************************)
(* column_index on its own: every header list and pattern within bounds    *)
(***************************************************************************)
MaxHeaders == 2
MaxHeaderLen == 2
MaxPatLen == 2

HeaderChars == {"a", "b"}
PatternChars == {"a", "b", ".", "^", "$", "("}

InitCol ==
    /\ \E n \in 1..MaxHeaders :
       \E hs \in [1..n -> SeqsUpTo(HeaderChars, MaxHeaderLen)], p \in SeqsUpTo(PatternChars, MaxPatLen) :
          col = [column_header |-> hs, pattern |-> p, result |-> None]
    /\ pc = "resolve"
    /\ ci = 1
    /\ input = <<>>
    /\ config = [line_offset |-> None, column_delimeter |-> None, calculation |-> <<>>]
    /\ spreadsheet = NoSheet
    /\ output = NoFile
    /\ par = Idle

\* a call of column_index(&column_header, pattern)
Resolve ==
    /\ pc = "resolve"
    /\ col' = [col EXCEPT !.result = Some(column_index(col.column_header, col.pattern))]
    /\ pc' = "resolved"
    /\ UNCHANGED <<input, config, ci, spreadsheet, output, par>>

NextCol == Resolve

SpecCol == InitCol /\ [][NextCol]_vars

(***************************************************************************)
(* do_operation as rayon runs it: one task per row, in any order, each     *)
(* writing the slot of its own row; collect returns the filled slots.      *)
(***************************************************************************)
MaxParRows == 3

IntVal(n) == Fin(FALSE, n, 0)

\* (left, right) cells of one row
PairSet ==
    { <<IntVal(1), IntVal(10)>>, <<IntVal(2), IntVal(20)>>, <<IntVal(3), IntVal(30)>>,
      <<NAN, IntVal(2)>>, <<IntVal(1), IntVal(0)>>, <<IntVal(6), IntVal(4)>> }

InitPar ==
    /\ \E rows \in SeqsUpTo(PairSet, MaxParRows), operation \in Operators \cup {"%"} :
          par = [col1 |-> [i \in 1..Len(rows) |-> rows[i][1]],
                 col2 |-> [i \in 1..Len(rows) |-> rows[i][2]],
                 operation |-> operation,
                 todo |-> 1..Len(rows),
                 slots |-> [i \in 1..Len(rows) |-> None],
                 order |-> <<>>,
                 result |-> None]
    /\ pc = "par"
    /\ ci = 1
    /\ input = <<>>
    /\ config = [line_offset |-> None, column_delimeter |-> None, calculation |-> <<>>]
    /\ spreadsheet = NoSheet
    /\ output = NoFile
    /\ col = Idle

\* a collect that writes in order of completion
SlotByCompletion(i, filled) == filled + 1

\* the slot the task of row i writes, `filled` slots being written already:
\* collect on an indexed parallel iterator writes by index
SlotOf(i, filled) == i

\* the task of row i
ParTask(i) ==
    /\ pc = "par"
    /\ par.operation \in Operators
    /\ i \in par.todo
    /\ LET filled == Len(par.order)
           v == ApplyOp(par.operation, par.col1[i], par.col2[i])
       IN  /\ v.k # "other"
           /\ par' = [par EXCEPT !.todo = @ \ {i},
                                 !.order = Append(@, i),
                                 !.slots[SlotOf(i, filled)] = Some(v)]
    /\ UNCHANGED <<input, config, pc, ci, spreadsheet, output, col>>

\* collect returns once every task has run
ParCollect ==
    /\ pc = "par"
    /\ par.operation \in Operators
    /\ par.todo = {}
    /\ par' = [par EXCEPT !.result =
                 Some([err |-> "", v |-> [i \in 1..Len(par.slots) |-> par.slots[i][1]]])]
    /\ pc' = "collected"
    /\ UNCHANGED <<input, config, ci, spreadsheet, output, col>>

\* the last match arm: no task is started
ParReject ==
    /\ pc = "par"
    /\ par.operation \notin Operators
    /\ par' = [par EXCEPT !.result = Some(do_operation(par.col1, par.col2, par.operation))]
    /\ pc' = "collected"
    /\ UNCHANGED <<input, config, ci, spreadsheet, output, col>>

NextPar == (\E i \in 1..MaxParRows : ParTask(i)) \/ ParCollect \/ ParReject

SpecPar == InitPar /\ [][NextPar]_vars

(***************************************************************************)
(* Properties                                                              *)
(***************************************************************************)
d_run == column_delimeter_of(config)
k_run == line_offset_of(config)

\* the text is a rectangular table: it ends with a line break, a header
\* line follows the k preamble lines, and every data line has as many
\* fields as the header
Rectangular(text, lines, d, k) ==
    /\ text # <<>>
    /\ text[Len(text)] = LF
    /\ Len(lines) > k
    /\ \A r \in (k + 2)..Len(lines) : Len(Split(lines[r], d)) = Len(Split(lines[k + 1], d))

\* the lines of a text whose line breaks are line feeds
LinesLF(text) == SplitNonEmpty(SubSeq(text, 1, Len(text) - 1), <<LF>>)

NoCRLF(text) == \A i \in 1..(Len(text) - 1) : ~(text[i] = CR /\ text[i + 1] = LF)

\* C1 as stated: for every rectangular table text, whatever its line breaks
\* (line feed, or carriage return and line feed), and every preamble length
\* k with a header line after it, from_string succeeds and to_string gives
\* the text back.
C1_RoundTripAnyLineBreak ==
    Rectangular(input, Lines(input), d_run, k_run) =>
        /\ pc # "panicked"
        /\ pc = "done" => output.bytes = input

\* C1 amended: the round trip holds when every line break of the text is a
\* single line feed (no carriage return stands before a line feed).
C1_RoundTrip ==
    (NoCRLF(input) /\ Rectangular(input, LinesLF(input), d_run, k_run)) =>
        /\ pc # "panicked"
        /\ pc = "done" => output.bytes = input

\* a preamble, two columns and a data row, written back
C1_Witness ==
    /\ pc = "done"
    /\ NoCRLF(input) /\ Rectangular(input, LinesLF(input), d_run, k_run)
    /\ spreadsheet.preamble # <<>>
    /\ spreadsheet.data.ncols >= 2
    /\ spreadsheet.data.nrows >= 1
    /\ output.bytes = input

\* the pattern occurs in the header as a run of characters
Occurs(pattern, header) == \E o \in 1..(Len(header) + 1) : OccursAt(header, pattern, o)

\* the 0-based indices of the headers a compiled pattern matches
MatchSet(column_header, pattern) ==
    {i \in 0..(Len(column_header) - 1) : is_match(RegexNew(pattern).re, column_header[i + 1])}

\* C2: column_index returns i exactly when header i is the only header the
\* pattern matches, a match anywhere in the header counting; no match is a
\* not-found error, two or more an ambiguity error and no index.
C2_ColumnResolution ==
    (pc = "resolved" /\ RegexNew(col.pattern).ok) =>
        LET r == col.result[1]
            M == MatchSet(col.column_header, col.pattern)
        IN  /\ r.err = "" <=> Cardinality(M) = 1
            /\ r.err = "" => M = {r.idx}
            /\ M = {} <=> r.err = "not found"
            /\ Cardinality(M) >= 2 <=> r.err = "ambiguous"
            /\ (\A i \in 1..Len(col.pattern) : col.pattern[i] \in HeaderChars) =>
                  \A i \in 0..(Len(col.column_header) - 1) :
                      i \in M <=> Occurs(col.pattern, col.column_header[i + 1])

\* the second header is returned on a match of a part of it
C2_Witness ==
    /\ pc = "resolved"
    /\ col.result[1] = [err |-> "", idx |-> 1]
    /\ col.pattern # <<>>
    /\ Len(col.pattern) < Len(col.column_header[2])

\* the table from_string builds from the input of this run
Parsed == from_string(input, d_run, k_run)

\* the run is past from_string and holds a table
HasTable == pc \in {"calc", "failed", "write", "done", "io error"}

headers == spreadsheet.column_headers

ResultNames(n) == [j \in 1..n |-> config.calculation[j].result]

\* C3: the calculations run one at a time in the order of the list: while
\* calculation n is the next, the headers are the original ones followed by
\* the result names of calculations 1..n-1 in order, and each step of the
\* loop applies calculation n and moves to n+1.
C3_SequentialOrder ==
    /\ [](HasTable => /\ ci \in 1..(Len(config.calculation) + 1)
                      /\ headers = Parsed.sheet.column_headers \o ResultNames(ci - 1))
    /\ [][ \/ ci' = ci
           \/ /\ pc = "calc"
              /\ ci' = ci + 1
              /\ spreadsheet' = column_op(spreadsheet,
                                          config.calculation[ci].left,
                                          config.calculation[ci].operation,
                                          config.calculation[ci].right,
                                          config.calculation[ci].result).self
              /\ headers' = Append(headers, config.calculation[ci].result) ]_vars

\* the second calculation has run on a column only the first one made
C3_Witness ==
    /\ pc = "done"
    /\ ci = 3
    /\ column_index(Parsed.sheet.column_headers, config.calculation[2].left).err = "not found"
    /\ spreadsheet.data.nrows >= 1

RECURSIVE RunAll(_, _)
\* the calculations applied in order from a table, up to the first error
RunAll(sheet, calcs) ==
    IF calcs = <<>> THEN [err |-> "", self |-> sheet]
    ELSE LET r == column_op(sheet, calcs[1].left, calcs[1].operation, calcs[1].right,
                            calcs[1].result)
         IN  IF r.err # "" THEN r ELSE RunAll(r.self, Tail(calcs))

\* C4: the output file exists only when from_string and every configured
\* calculation have succeeded, and then holds the final table; a run that
\* fails in from_string or in a calculation ends without an output file.
C4_NoPartialOutput ==
    LET p == Parsed
        all == RunAll(p.sheet, config.calculation)
    IN  /\ output.created =>
              /\ pc \in {"write", "done"}
              /\ p.ok
              /\ all.err = ""
              /\ pc = "done" => output.bytes = to_string(all.self)
        /\ pc \in {"panicked", "failed"} => output = NoFile
        /\ (~p.ok /\ pc # "parse") => pc = "panicked"
        /\ (HasTable /\ all.err # "") => pc \in {"calc", "failed"}

\* the second calculation failed after the first had changed the table
C4_Witness ==
    /\ pc = "failed"
    /\ ci = 2
    /\ spreadsheet.data.nrows >= 1
    /\ output = NoFile

\* C5: from_string builds no table when a data line has fewer or more
\* fields than the header; and every table of a run, before and after any
\* calculation, successful or failed, has as many columns as headers, full
\* rows, and one row per data line.
C5_RowWidth ==
    LET ls == Lines(input)
        data_lines == SubSeq(ls, k_run + 2, Len(ls))
    IN  /\ (pc # "parse" /\ Len(ls) > k_run
            /\ \E r \in 1..Len(data_lines) :
                  Len(Split(data_lines[r], d_run)) # Len(Split(ls[k_run + 1], d_run)))
              => pc = "panicked" /\ spreadsheet = NoSheet
        /\ HasTable =>
              /\ spreadsheet.data.ncols = Len(headers)
              /\ Len(spreadsheet.data.elems) = spreadsheet.data.nrows * Len(headers)
              /\ spreadsheet.data.nrows = Len(data_lines)

\* a table of two rows after a successful and a failed calculation
C5_Witness ==
    /\ pc = "failed"
    /\ ci = 2
    /\ spreadsheet.data.nrows = 2
    /\ spreadsheet.data.ncols = 3

NaNToken == <<"N", "a", "N">>

IsOperator(operation) == operation \in {"+", "-", "*", "/"}

\* C6: a calculation whose patterns resolve and whose operator is one of
\* + - * / succeeds, and in every row whose left or right cell does not
\* parse as a number the appended cell is NaN, while every other row gets
\* the result of its own two numbers.
C6_NaNPropagation ==
    [][ (/\ pc = "calc"
         /\ ci <= Len(config.calculation)
         /\ column_index(headers, config.calculation[ci].left).err = ""
         /\ column_index(headers, config.calculation[ci].right).err = ""
         /\ IsOperator(config.calculation[ci].operation))
        => /\ pc' = "calc" /\ ci' = ci + 1
           /\ \A r \in 1..spreadsheet.data.nrows :
                 LET l == At(spreadsheet.data, r,
                             column_index(headers, config.calculation[ci].left).idx + 1)
                     rt == At(spreadsheet.data, r,
                              column_index(headers, config.calculation[ci].right).idx + 1)
                     new == At(spreadsheet'.data, r, spreadsheet'.data.ncols)
                 IN  IF ~F64FromStr(l).ok \/ ~F64FromStr(rt).ok
                     THEN new = NaNToken
                     ELSE new = F64ToString(ApplyOp(config.calculation[ci].operation,
                                                    F64FromStr(l).val, F64FromStr(rt).val)) ]_vars

\* a calculation has run over a row with a cell that is no number
C6_Witness ==
    /\ HasTable
    /\ ci >= 2
    /\ LET before == SubSeq(headers, 1, Len(headers) - 1)
           i1 == column_index(before, config.calculation[ci - 1].left)
       IN  \E r \in 1..spreadsheet.data.nrows :
              /\ ~F64FromStr(At(spreadsheet.data, r, i1.idx + 1)).ok
              /\ At(spreadsheet.data, r, spreadsheet.data.ncols) = NaNToken

ExampleA == <<IntVal(1), IntVal(2), IntVal(3)>>
ExampleB == <<IntVal(10), IntVal(20), IntVal(30)>>

Minus(n) == Fin(TRUE, n, 0)

\* C7: for each of + - * / the result has one entry per row and entry i is
\* left[i] op right[i], in whatever order the rows were computed; for
\* A = [1,2,3] and B = [10,20,30], + gives [11,22,33], - gives [-9,-18,-27]
\* and * gives [10,40,90].
C7_Elementwise ==
    (pc = "collected" /\ IsOperator(par.operation)) =>
        LET res == par.result[1]
            R == Len(par.col1)
        IN  /\ res.err = ""
            /\ Len(res.v) = R
            /\ Len(par.col2) = R
            /\ \A i \in 1..R :
                  /\ par.operation = "+" => res.v[i] = F64Add(par.col1[i], par.col2[i])
                  /\ par.operation = "-" => res.v[i] = F64Sub(par.col1[i], par.col2[i])
                  /\ par.operation = "*" => res.v[i] = F64Mul(par.col1[i], par.col2[i])
                  /\ par.operation = "/" => res.v[i] = F64Div(par.col1[i], par.col2[i])
            /\ (par.col1 = ExampleA /\ par.col2 = ExampleB) =>
                  /\ par.operation = "+" => res.v = <<IntVal(11), IntVal(22), IntVal(33)>>
                  /\ par.operation = "-" => res.v = <<Minus(9), Minus(18), Minus(27)>>
                  /\ par.operation = "*" => res.v = <<IntVal(10), IntVal(40), IntVal(90)>>

\* the example's product, its rows computed last to first
C7_Witness ==
    /\ pc = "collected"
    /\ par.col1 = ExampleA /\ par.col2 = ExampleB
    /\ par.operation = "*"
    /\ par.order = <<3, 2, 1>>
    /\ par.result[1].v = <<IntVal(10), IntVal(40), IntVal(90)>>

IsPrefix(s, t) == Len(s) <= Len(t) /\ SubSeq(t, 1, Len(s)) = s

\* C8: a successful column_op adds the result name at the end of the
\* headers and one cell at the end of every row, and changes nothing else:
\* preamble, delimiter, row count, row order and every header and cell there
\* was stay where they were; no step removes or renames a column.
C8_AppendFrame ==
    [][ /\ ci' = ci + 1 =>
             /\ headers' = Append(headers, config.calculation[ci].result)
             /\ spreadsheet'.preamble = spreadsheet.preamble
             /\ spreadsheet'.col_delimeter = spreadsheet.col_delimeter
             /\ spreadsheet'.data.nrows = spreadsheet.data.nrows
             /\ spreadsheet'.data.ncols = spreadsheet.data.ncols + 1
             /\ Len(spreadsheet'.data.elems) = Len(spreadsheet.data.elems) + spreadsheet.data.nrows
        /\ HasTable =>
             /\ IsPrefix(headers, headers')
             /\ \A r \in 1..spreadsheet.data.nrows : \A c \in 1..spreadsheet.data.ncols :
                   At(spreadsheet'.data, r, c) = At(spreadsheet.data, r, c) ]_vars

\* two columns appended to a table of two rows
C8_Witness ==
    /\ HasTable
    /\ ci = 3
    /\ spreadsheet.data.nrows = 2
    /\ spreadsheet.data.ncols = 4

\* a pattern that does not pick one header: it does not compile, or it
\* matches none or several
PatternFails(pattern) ==
    \/ ~RegexNew(pattern).ok
    \/ Cardinality(MatchSet(headers, pattern)) # 1

\* C9: column_op fails exactly when the left or the right pattern matches no
\* header or several or does not compile, or the operator is none of
\* + - * /, and then the table is what it was before the call.
C9_FailureLeavesTable ==
    [][ /\ pc' = "failed" =>
             /\ spreadsheet' = spreadsheet
             /\ \/ PatternFails(config.calculation[ci].left)
                \/ PatternFails(config.calculation[ci].right)
                \/ ~IsOperator(config.calculation[ci].operation)
        /\ (/\ pc = "calc"
            /\ ci <= Len(config.calculation)
            /\ \/ PatternFails(config.calculation[ci].left)
               \/ PatternFails(config.calculation[ci].right)
               \/ ~IsOperator(config.calculation[ci].operation))
           => pc' = "failed" ]_vars

\* an unsupported operator met after a column was appended
C9_Witness ==
    /\ pc = "failed"
    /\ ci = 2
    /\ ~PatternFails(config.calculation[2].left)
    /\ ~PatternFails(config.calculation[2].right)
    /\ ~IsOperator(config.calculation[2].operation)
    /\ spreadsheet.data.nrows >= 1
    /\ Len(headers) = spreadsheet.data.ncols

\* the table written and read again is the same table
ReparseSame ==
    LET r == from_string(to_string(spreadsheet), spreadsheet.col_delimeter,
                         Len(spreadsheet.preamble))
    IN  r.ok /\ r.sheet = spreadsheet

Contains(str, chars) == \E i \in 1..Len(str) : str[i] \in chars

\* the delimiter is one character, no line break, and no preamble line,
\* header or cell holds it, a line feed or a carriage return
CleanFields ==
    /\ Len(spreadsheet.col_delimeter) = 1
    /\ spreadsheet.col_delimeter[1] \notin {LF, CR}
    /\ LET bad == {spreadsheet.col_delimeter[1], LF, CR}
       IN  /\ \A i \in 1..Len(headers) : ~Contains(headers[i], bad)
           /\ \A i \in 1..Len(spreadsheet.data.elems) : ~Contains(spreadsheet.data.elems[i], bad)
           /\ \A i \in 1..Len(spreadsheet.preamble) : ~Contains(spreadsheet.preamble[i], {LF, CR})

\* C10 as stated: every table of a run, whatever the result names, is read
\* back from its own to_string as the same table.
C10_ReparseAnyNames == HasTable => ReparseSame

\* C10 amended: the table is read back the same when the delimiter is a
\* single character other than a line break and no header (so no result
\* name), no cell (so no rendered number) and no preamble line holds the
\* delimiter, a line feed or a carriage return.
C10_Reparse == (HasTable /\ CleanFields) => ReparseSame

\* a table with two appended columns, written and read back
C10_Witness ==
    /\ pc = "done"
    /\ ci = 3
    /\ CleanFields
    /\ spreadsheet.data.nrows >= 1
    /\ spreadsheet.preamble # <<>>
    /\ from_string(output.bytes, d_run, k_run).sheet = spreadsheet

=============================================================================
